---- MODULE Spec2Model ----
(***************************************************************************)
(* EtherLiftFundraising: a single confidential fundraising campaign.       *)
(* The contract (contracts/EtherLiftFundraising.sol) is modelled           *)
(* transaction by transaction: every external call is one atomic step, and *)
(* a call that reverts leaves the chain state as it was and only records   *)
(* its revert reason in the receipt.  Ciphertext handles (euint64) are     *)
(* indices into the coprocessor's store: plain[h] is the plaintext behind  *)
(* handle h and acl[h] the accounts allowed on it; handle 0 is the         *)
(* uninitialized handle (bytes32(0)).  The cETH token (ERC7984ETH) is the  *)
(* confidential ledger the contract calls.                                 *)
(***************************************************************************)
EXTENDS Integers, Sequences, FiniteSets, Bags, TLC

\* ---------------------------------------------------------------- bounds
\* block.timestamp runs from 1 to MaxTime
MaxTime == 3
\* the largest amount a caller submits
MaxAmount == 2
\* configure and contribute are followed while the event log is shorter than this
MaxEvents == 3
\* bits of an encrypted amount (64 in euint64)
Width == 3
\* what each contributor has been minted
MintAmount == 3
\* frontend handlers that can be in flight at the same time
MaxCalls == 2

\* ------------------------------------------------------------- principals
fundraiser == "deployer"
self == "EtherLiftFundraising"
cEth == "ERC7984ETH"
Callers == {"deployer", "alice", "bob"}
Contributors == {"alice", "bob"}
Holders == Callers \cup {self}

Names == {"", "EtherLift Seed"}
Targets == {0, 2}
Times == 1..MaxTime
Amounts == {1, MaxAmount}
Modulus == 2 ^ Width
Expiries == {MaxTime}

\* ------------------------------------------------------------ revert reasons
NoError == "ok"
Unauthorized == "Only fundraiser"
AlreadyClosed == "Already closed"
CampaignClosed == "Campaign closed"
PastEndTime == "Past end time"
OperatorMissing == "Operator missing"
InvalidName == "Name required"
InvalidTarget == "Target required"
InvalidEndTime == "End time must be in future"
TransferRejected == "TransferRejected"

VARIABLES
    now,                \* block.timestamp
    _campaign,          \* Campaign {name, targetAmount, endTime}
    _totalRaised,       \* euint64 handle
    isClosed,
    lastContributionAt,
    _contributions,     \* mapping(address => euint64)
    events,             \* the contract's event log
    plain,              \* coprocessor: handle -> plaintext
    acl,                \* coprocessor: handle -> accounts allowed
    balance,            \* cETH: confidential balance of each holder (plaintext)
    operatorUntil,      \* cETH: expiry of the contract's operator approval per holder
    transfers,          \* cETH: the transfers it has carried out
    receipt,            \* outcome of the last transaction
    busy,               \* frontend: the busy slot (useState)
    status,             \* frontend: the banner message
    calls,              \* frontend: handler calls suspended at an await
    requested           \* relayer: the handles of the last userDecrypt request

chainVars == <<now, _campaign, _totalRaised, isClosed, lastContributionAt, _contributions,
               events, plain, acl, balance, operatorUntil, transfers, receipt>>
uiVars == <<busy, status, calls, requested>>
vars == <<now, _campaign, _totalRaised, isClosed, lastContributionAt, _contributions,
          events, plain, acl, balance, operatorUntil, transfers, receipt,
          busy, status, calls, requested>>

\* ------------------------------------------------------------ FHE library
\* FHE.isInitialized
isInitialized(h) == h # 0

\* plaintext behind a handle; an uninitialized operand is taken as zero
Plain(st, h) == IF h = 0 THEN 0 ELSE st[h]

\* FHE.add on euint64: wraps at the width of the type
FHE_add(a, b) == (a + b) % Modulus

\* ------------------------------------------------------------ cETH ledger
\* ERC7984.isOperator(holder, spender) for spender = this contract
isOperator(holder) == now <= operatorUntil[holder]

\* what the ledger may do with a transfer of amt out of `from`: reject it
\* (bad proof, or any other ledger failure), or move an amount: amt when the
\* balance covers it, nothing when it does not
Rejected == -1
TransferOutcomes(from, amt) ==
    IF balance[from] >= amt THEN {amt, Rejected} ELSE {0, Rejected}

Move(from, to, amt) ==
    [balance EXCEPT ![from] = @ - amt, ![to] = balance[to] + amt]

\* the amounts the ledger has moved, taken from its record of transfers
RECURSIVE SumAmounts(_)
SumAmounts(s) == IF s = <<>> THEN 0 ELSE Head(s).amount + SumAmounts(Tail(s))
MovedIn(c) == SelectSeq(transfers, LAMBDA t : t.from = c /\ t.to = self)
MovedInAll == SelectSeq(transfers, LAMBDA t : t.to = self)
MovedOut == SelectSeq(transfers, LAMBDA t : t.from = self)

\* ERC7984ETH.mint has run before the campaign starts: what each holder has
Minted == [h \in Holders |->
             IF h \in Contributors THEN MintAmount ELSE IF h = fundraiser THEN 1 ELSE 0]

\* ERC7984.setOperator(address(this), until) sent by holder
SetOperator(holder, until) ==
    /\ operatorUntil' = [operatorUntil EXCEPT ![holder] = until]
    /\ receipt' = [op |-> "cEth", err |-> NoError]
    /\ UNCHANGED <<now, _campaign, _totalRaised, isClosed, lastContributionAt,
                   _contributions, events, plain, acl, balance, transfers>>

\* ------------------------------------------------------------ the contract
\* the events of one type, in the order they were emitted
EventsOf(type) == SelectSeq(events, LAMBDA e : e.type = type)
Count(type) == Len(EventsOf(type))

\* a reverted transaction: nothing but the receipt changes
RevertKeepsTimestamp(op, reason) ==
    /\ receipt' = [op |-> op, err |-> reason]
    /\ lastContributionAt' = now
    /\ UNCHANGED <<now, _campaign, _totalRaised, isClosed, _contributions, events,
                   plain, acl, balance, operatorUntil, transfers>>
Revert(op, reason) ==
    /\ receipt' = [op |-> op, err |-> reason]
    /\ UNCHANGED <<now, _campaign, _totalRaised, isClosed, lastContributionAt,
                   _contributions, events, plain, acl, balance, operatorUntil, transfers>>

\* the require chain of _setCampaign
SetCampaignErrorEndInclusive(name, targetAmount, endTime) ==
    IF isClosed THEN CampaignClosed
    ELSE IF name = "" THEN InvalidName
    ELSE IF ~(targetAmount > 0) THEN InvalidTarget
    ELSE IF ~(endTime >= now) THEN InvalidEndTime
    ELSE NoError
SetCampaignError(name, targetAmount, endTime) ==
    IF isClosed THEN CampaignClosed
    ELSE IF name = "" THEN InvalidName
    ELSE IF ~(targetAmount > 0) THEN InvalidTarget
    ELSE IF ~(endTime > now) THEN InvalidEndTime
    ELSE NoError

CampaignUpdatedNoTarget(name, targetAmount, endTime) ==
    [type |-> "CampaignUpdated", name |-> name, targetAmount |-> 0, endTime |-> endTime]
CampaignUpdated(name, targetAmount, endTime) ==
    [type |-> "CampaignUpdated", name |-> name, targetAmount |-> targetAmount,
     endTime |-> endTime]

\* the struct _setCampaign stores
StoredCampaignSwapped(name, targetAmount, endTime) ==
    [name |-> name, targetAmount |-> endTime, endTime |-> targetAmount]
StoredCampaign(name, targetAmount, endTime) ==
    [name |-> name, targetAmount |-> targetAmount, endTime |-> endTime]

\* onlyFundraiser
OnlyFundraiserAnyone(caller) == TRUE
OnlyFundraiser(caller) == caller = fundraiser

ConfigureError(caller, name, targetAmount, endTime) ==
    IF ~OnlyFundraiser(caller) THEN Unauthorized
    ELSE SetCampaignError(name, targetAmount, endTime)

configureCampaign(caller, name, targetAmount, endTime) ==
    LET err == ConfigureError(caller, name, targetAmount, endTime) IN
    IF err # NoError THEN Revert("configureCampaign", err)
    ELSE /\ Len(events) < MaxEvents
         /\ _campaign' = StoredCampaign(name, targetAmount, endTime)
         /\ events' = Append(events, CampaignUpdated(name, targetAmount, endTime))
         /\ receipt' = [op |-> "configureCampaign", err |-> NoError]
         /\ UNCHANGED <<now, _totalRaised, isClosed, lastContributionAt, _contributions,
                        plain, acl, balance, operatorUntil, transfers>>

\* views
getCampaign == <<_campaign.name, _campaign.targetAmount, _campaign.endTime, isClosed>>
timeRemainingNoGuard == _campaign.endTime - now
timeRemaining == IF now >= _campaign.endTime THEN 0 ELSE _campaign.endTime - now
totalRaised == _totalRaised
contributionOfFundraiser(contributor) == _contributions[fundraiser]
contributionOf(contributor) == _contributions[contributor]

\* a call of one of the four view functions: it reads, and returns
ViewInitializesTotal ==
    /\ receipt' = [op |-> "view", err |-> NoError]
    /\ plain' = IF ~isInitialized(_totalRaised) THEN Append(plain, 0) ELSE plain
    /\ acl' = IF ~isInitialized(_totalRaised) THEN Append(acl, {self}) ELSE acl
    /\ _totalRaised' = IF ~isInitialized(_totalRaised) THEN Len(plain) + 1 ELSE _totalRaised
    /\ UNCHANGED <<now, _campaign, isClosed, lastContributionAt,
                   _contributions, events, balance, operatorUntil, transfers>>
View ==
    /\ receipt' = [op |-> "view", err |-> NoError]
    /\ UNCHANGED <<now, _campaign, _totalRaised, isClosed, lastContributionAt,
                   _contributions, events, plain, acl, balance, operatorUntil, transfers>>

\* ---- contribute
ContributionReceived(contributor, encryptedAmount, timestamp) ==
    [type |-> "ContributionReceived", contributor |-> contributor,
     encryptedAmount |-> encryptedAmount, timestamp |-> timestamp]

\* the three requires of contribute, then the ledger call
ContributeErrorOperatorFirst(caller, res) ==
    IF isClosed THEN CampaignClosed
    ELSE IF ~isOperator(caller) THEN OperatorMissing
    ELSE IF ~(now <= _campaign.endTime) THEN PastEndTime
    ELSE IF res = Rejected THEN TransferRejected
    ELSE NoError
ContributeErrorFirstDeadline(caller, res) ==
    IF isClosed THEN CampaignClosed
    ELSE IF ~(now <= events[1].endTime) THEN PastEndTime
    ELSE IF ~isOperator(caller) THEN OperatorMissing
    ELSE IF res = Rejected THEN TransferRejected
    ELSE NoError
ContributeErrorExclusiveDeadline(caller, res) ==
    IF isClosed THEN CampaignClosed
    ELSE IF ~(now < _campaign.endTime) THEN PastEndTime
    ELSE IF ~isOperator(caller) THEN OperatorMissing
    ELSE IF res = Rejected THEN TransferRejected
    ELSE NoError
ContributeErrorTargetReached(caller, res) ==
    IF isClosed THEN CampaignClosed
    ELSE IF ~(now <= _campaign.endTime) THEN PastEndTime
    ELSE IF ~isOperator(caller) THEN OperatorMissing
    ELSE IF Plain(plain, _totalRaised) >= _campaign.targetAmount THEN "Target reached"
    ELSE IF res = Rejected THEN TransferRejected
    ELSE NoError
ContributeErrorNoClosedCheck(caller, res) ==
    IF ~(now <= _campaign.endTime) THEN PastEndTime
    ELSE IF ~isOperator(caller) THEN OperatorMissing
    ELSE IF res = Rejected THEN TransferRejected
    ELSE NoError
ContributeErrorNoDeadline(caller, res) ==
    IF isClosed THEN CampaignClosed
    ELSE IF ~isOperator(caller) THEN OperatorMissing
    ELSE IF res = Rejected THEN TransferRejected
    ELSE NoError
ContributeErrorNoOperatorCheck(caller, res) ==
    IF isClosed THEN CampaignClosed
    ELSE IF ~(now <= _campaign.endTime) THEN PastEndTime
    ELSE IF res = Rejected THEN TransferRejected
    ELSE NoError
ContributeError(caller, res) ==
    IF isClosed THEN CampaignClosed
    ELSE IF ~(now <= _campaign.endTime) THEN PastEndTime
    ELSE IF ~isOperator(caller) THEN OperatorMissing
    ELSE IF res = Rejected THEN TransferRejected
    ELSE NoError

\* the plaintext behind `transferred`: what the ledger moved for a caller who
\* submitted `amount`
TransferredClaimed(amount, res) == amount
Transferred(amount, res) == res

\* plaintexts behind the two sums contribute computes
NewContributionFromTotal(caller, res) == FHE_add(Plain(plain, _totalRaised), res)
NewContributionOverwrite(caller, res) == FHE_add(0, res)
NewContributionPlain(caller, res) == FHE_add(Plain(plain, _contributions[caller]), res)
UpdatedTotalLatestOnly(caller, res) == res
UpdatedTotalFromBalance(caller, res) == FHE_add(Plain(plain, _contributions[caller]), res)
UpdatedTotalPlain(caller, res) == FHE_add(Plain(plain, _totalRaised), res)

\* the accounts contribute allows on the new balance and on the new total
BalanceGrantsAllContributors(caller) == {self, caller, fundraiser} \cup Contributors
BalanceGrants(caller) == {self, caller, fundraiser}
TotalGrantsKeepsEarlier(caller) ==
    {self, fundraiser, caller} \cup (IF isInitialized(_totalRaised) THEN acl[_totalRaised] ELSE {})
TotalGrantsNoContributor(caller) == {self, fundraiser}
TotalGrants(caller) == {self, fundraiser, caller}

\* the value contribute writes to lastContributionAt
RecordedAtStale == lastContributionAt
RecordedAt == now

contribute(caller, amount, res) ==
    LET err == ContributeError(caller, res)
        transferred == Len(plain) + 1
        newContribution == Len(plain) + 2
        updatedTotal == Len(plain) + 3
    IN
    IF err # NoError THEN Revert("contribute", err)
    ELSE /\ Len(events) < MaxEvents
         /\ balance' = Move(caller, self, res)
         /\ transfers' = Append(transfers,
                [from |-> caller, to |-> self, amount |-> res, handle |-> transferred])
         /\ plain' = plain \o <<Transferred(amount, res),
                                NewContributionPlain(caller, Transferred(amount, res)),
                                UpdatedTotalPlain(caller, Transferred(amount, res))>>
         /\ acl' = acl \o <<{cEth, caller, self}, BalanceGrants(caller), TotalGrants(caller)>>
         /\ _contributions' = [_contributions EXCEPT ![caller] = newContribution]
         /\ _totalRaised' = updatedTotal
         /\ lastContributionAt' = RecordedAt
         /\ events' = Append(events, ContributionReceived(caller, transferred, now))
         /\ receipt' = [op |-> "contribute", err |-> NoError]
         /\ UNCHANGED <<now, _campaign, isClosed, operatorUntil>>

\* ---- closeCampaign
CampaignClosedEvent(to, encryptedAmount, timestamp) ==
    [type |-> "CampaignClosed", fundraiser |-> to,
     encryptedAmount |-> encryptedAmount, timestamp |-> timestamp]

\* the handle closeCampaign pays out: the total, or a fresh encryption of 0
PayoutGrantsFundraiser == {self, fundraiser}
PayoutGrants == {self}
PayoutNoSubstitute == _totalRaised
Payout == IF ~isInitialized(_totalRaised) THEN Len(plain) + 1 ELSE _totalRaised
\* the amount behind it
PayoutPlainLastBalance == Plain(plain, _contributions["alice"])
PayoutPlain == Plain(plain, _totalRaised)

CloseErrorBeforeDeadline(caller) ==
    IF ~OnlyFundraiser(caller) THEN Unauthorized
    ELSE IF isClosed THEN AlreadyClosed
    ELSE IF now <= _campaign.endTime THEN "Campaign active"
    ELSE NoError
CloseErrorNoClosedCheck(caller) ==
    IF ~OnlyFundraiser(caller) THEN Unauthorized ELSE NoError
CloseError(caller) ==
    IF ~OnlyFundraiser(caller) THEN Unauthorized
    ELSE IF isClosed THEN AlreadyClosed
    ELSE NoError

\* the ledger call reverts: the transaction reverts, the write of line 73 with it
CloseRevertedKeepsFlag(caller) ==
    /\ isClosed' = TRUE
    /\ receipt' = [op |-> "closeCampaign", err |-> TransferRejected]
    /\ UNCHANGED <<now, _campaign, _totalRaised, lastContributionAt, _contributions,
                   events, plain, acl, balance, operatorUntil, transfers>>
CloseReverted(caller) == Revert("closeCampaign", TransferRejected)

closeCampaign(caller, res) ==
    LET err == CloseError(caller) IN
    IF err # NoError THEN Revert("closeCampaign", err)
    ELSE IF res = Rejected THEN CloseReverted(caller)
    ELSE /\ isClosed' = TRUE
         /\ plain' = IF ~isInitialized(_totalRaised) THEN Append(plain, 0) ELSE plain
         /\ acl' = IF ~isInitialized(_totalRaised) THEN Append(acl, PayoutGrants) ELSE acl
         /\ balance' = Move(self, fundraiser, res)
         /\ transfers' = Append(transfers,
                [from |-> self, to |-> fundraiser, amount |-> res, handle |-> Payout])
         /\ events' = Append(events, CampaignClosedEvent(fundraiser, Payout, now))
         /\ receipt' = [op |-> "closeCampaign", err |-> NoError]
         /\ UNCHANGED <<now, _campaign, _totalRaised, lastContributionAt,
                        _contributions, operatorUntil>>

\* ---- time
Tick ==
    /\ now < MaxTime
    /\ now' = now + 1
    /\ UNCHANGED <<_campaign, _totalRaised, isClosed, lastContributionAt, _contributions,
                   events, plain, acl, balance, operatorUntil, transfers, receipt>>


\* ------------------------------------------------------------ the frontend
\* FundraisingApp (src/home/src/components): six async handlers behind six
\* buttons, one busy slot and one banner.  A handler runs without
\* interruption up to an await; a call suspended at an await is an entry of
\* `calls`, and other handlers run in between.
None == "null"
Keys == {"operator", "mint", "contribute", "decrypt", "campaign", "close"}

ZERO_HANDLE == 0
\* a query that has no data (yet)
Undefined == -1
ContributionData == {Undefined, ZERO_HANDLE, 2}
TotalData == {Undefined, ZERO_HANDLE, 3}

\* the text of an amount field and parseUnits(text || '0', CETH_DECIMALS)
AmountTexts == {"", "0", "1.25"}
parsed(text) == IF text \in {"", "0"} THEN 0 ELSE 1250000

EncryptionNotReady == "Encryption service is not ready yet."
ConnectToDecrypt == "Connect your wallet to decrypt."
NothingToDecrypt == "Nothing to decrypt yet."
Succeeded(key) ==
    CASE key = "operator" -> "Operator approval granted for the fundraiser."
      [] key = "mint" -> "cETH minted to your wallet."
      [] key = "contribute" -> "Contribution submitted."
      [] key = "decrypt" -> "Decryption complete."
      [] key = "campaign" -> "Campaign updated."
      [] key = "close" -> "Campaign closed and funds released."
Failed(key) ==
    CASE key = "operator" -> "Operator approval failed"
      [] key = "mint" -> "Mint failed"
      [] key = "contribute" -> "Contribution failed"
      [] key = "decrypt" -> "Decryption failed"
      [] key = "campaign" -> "Update failed"
      [] key = "close" -> "Close failed"

\* a suspended call: its handler, the await it is at, and what it holds
Call(key, pc, contribution, total, handles) ==
    [key |-> key, pc |-> pc, contribution |-> contribution, total |-> total,
     handles |-> handles]
Pending(key) == Call(key, "tx", Undefined, Undefined, <<>>)
Suspend(call) == calls (+) SetToBag({call})
Resume(call) == calls (-) SetToBag({call})
InFlight(key) ==
    LET RECURSIVE Copies(_)
        Copies(cs) == IF cs = {} THEN 0
                      ELSE LET c == CHOOSE x \in cs : TRUE
                           IN CopiesIn(c, calls) + Copies(cs \ {c})
    IN Copies({c \in BagToSet(calls) : c.key = key})

\* what a button's disabled attribute takes from the busy slot
Disabled(key) == busy = key

\* setMessage followed by return or by the end of the handler: the finally
\* block runs setBusy(null)
Report(message) == status' = message /\ busy' = None

\* the handles decryptValues puts in its request
DecryptHandlesTruthyOnly(contribution, total) ==
    (IF contribution # Undefined THEN <<contribution>> ELSE <<>>)
       \o (IF total # Undefined THEN <<total>> ELSE <<>>)
DecryptHandles(contribution, total) ==
    (IF contribution # Undefined /\ contribution # ZERO_HANDLE THEN <<contribution>> ELSE <<>>)
       \o (IF total # Undefined /\ total # ZERO_HANDLE THEN <<total>> ELSE <<>>)

approveOperator ==
    /\ ~Disabled("operator")
    /\ BagCardinality(calls) < MaxCalls
    /\ busy' = "operator"
    /\ calls' = Suspend(Pending("operator"))
    /\ UNCHANGED <<status, requested>>

mintCeth(text) ==
    /\ ~Disabled("mint")
    /\ IF parsed(text) <= 0
         THEN Report("Enter a mint amount above zero.") /\ UNCHANGED <<calls, requested>>
         ELSE /\ BagCardinality(calls) < MaxCalls
              /\ busy' = "mint"
              /\ calls' = Suspend(Pending("mint"))
              /\ UNCHANGED <<status, requested>>

uiContribute(instance, text) ==
    /\ ~Disabled("contribute")
    /\ IF ~instance
         THEN Report(EncryptionNotReady) /\ UNCHANGED <<calls, requested>>
         ELSE IF parsed(text) <= 0
         THEN Report("Contribution must be above zero.") /\ UNCHANGED <<calls, requested>>
         ELSE /\ BagCardinality(calls) < MaxCalls
              /\ busy' = "contribute"
              /\ calls' = Suspend(Pending("contribute"))
              /\ UNCHANGED <<status, requested>>

\* decryptValues up to `await signer`
decryptValues(instance, address, contribution, total) ==
    /\ ~Disabled("decrypt")
    /\ IF ~instance
         THEN Report(EncryptionNotReady) /\ UNCHANGED <<calls, requested>>
         ELSE IF ~address
         THEN Report(ConnectToDecrypt) /\ UNCHANGED <<calls, requested>>
         ELSE /\ BagCardinality(calls) < MaxCalls
              /\ calls' = Suspend(Call("decrypt", "signer", contribution, total, <<>>))
              /\ UNCHANGED <<busy, status, requested>>

\* decryptValues from the signer to `await signTypedData`
decryptValuesSigner(call, resolvedSigner) ==
    /\ BagIn(call, calls) /\ call.key = "decrypt" /\ call.pc = "signer"
    /\ LET handles == DecryptHandles(call.contribution, call.total) IN
       IF ~resolvedSigner
         THEN Report(ConnectToDecrypt) /\ calls' = Resume(call) /\ UNCHANGED requested
         ELSE IF Len(handles) = 0
         THEN Report(NothingToDecrypt) /\ calls' = Resume(call) /\ UNCHANGED requested
         ELSE /\ busy' = "decrypt"
              /\ calls' = Resume(call)
                            (+) SetToBag({Call("decrypt", "sign", Undefined, Undefined, handles)})
              /\ UNCHANGED <<status, requested>>

\* decryptValues from the signature to `await instance.userDecrypt`
decryptValuesSigned(call, signed) ==
    /\ BagIn(call, calls) /\ call.key = "decrypt" /\ call.pc = "sign"
    /\ IF ~signed
         THEN Report(Failed("decrypt")) /\ calls' = Resume(call) /\ UNCHANGED requested
         ELSE /\ requested' = call.handles
              /\ calls' = Resume(call)
                            (+) SetToBag({Call("decrypt", "tx", Undefined, Undefined, call.handles)})
              /\ UNCHANGED <<busy, status>>

\* updateCampaign up to `await signer`
updateCampaign ==
    /\ ~Disabled("campaign")
    /\ BagCardinality(calls) < MaxCalls
    /\ calls' = Suspend(Call("campaign", "signer", Undefined, Undefined, <<>>))
    /\ UNCHANGED <<busy, status, requested>>

\* updateCampaign from the signer to the transaction
updateCampaignSigner(call, resolvedSigner, valid) ==
    /\ BagIn(call, calls) /\ call.key = "campaign" /\ call.pc = "signer"
    /\ IF ~resolvedSigner
         THEN Report("Connect your wallet.") /\ calls' = Resume(call) /\ UNCHANGED requested
         ELSE IF ~valid
         THEN /\ Report("Fill all campaign fields with valid values.")
              /\ calls' = Resume(call) /\ UNCHANGED requested
         ELSE /\ busy' = "campaign"
              /\ calls' = Resume(call) (+) SetToBag({Pending("campaign")})
              /\ UNCHANGED <<status, requested>>

uiCloseCampaign ==
    /\ ~Disabled("close")
    /\ BagCardinality(calls) < MaxCalls
    /\ busy' = "close"
    /\ calls' = Suspend(Pending("close"))
    /\ UNCHANGED <<status, requested>>

\* the transaction or the relayer answers, or throws: the handler reports
\* and its finally block clears the busy slot
Settle(call, ok) ==
    /\ BagIn(call, calls) /\ call.pc = "tx"
    /\ Report(IF ok THEN Succeeded(call.key) ELSE Failed(call.key))
    /\ calls' = Resume(call)
    /\ UNCHANGED requested

\* the timer of setMessage
ClearStatus ==
    /\ status # None
    /\ status' = None
    /\ UNCHANGED <<busy, calls, requested>>

\* ------------------------------------------------------------ specification
\* the state right after a successful deployment: the constructor has run
\* _setCampaign with arguments that pass its requires
Init ==
    /\ now = 1
    /\ isClosed = FALSE
    /\ \E name \in {"Relief Pool"}, targetAmount \in {1}, endTime \in {now + 1} :
          /\ SetCampaignError(name, targetAmount, endTime) = NoError
          /\ _campaign = StoredCampaign(name, targetAmount, endTime)
          /\ events = <<CampaignUpdated(name, targetAmount, endTime)>>
    /\ _totalRaised = 0
    /\ lastContributionAt = 0
    /\ _contributions = [c \in Callers |-> 0]
    /\ plain = <<>>
    /\ acl = <<>>
    /\ balance = Minted
    /\ operatorUntil = [c \in Callers |-> 0]
    /\ transfers = <<>>
    /\ receipt = [op |-> "constructor", err |-> NoError]
    /\ busy = None
    /\ status = None
    /\ calls = EmptyBag
    /\ requested = <<>>

DoSetOperator == \E holder \in Contributors, until \in Expiries : SetOperator(holder, until)
DoConfigure ==
    \E caller \in Callers, name \in Names, targetAmount \in Targets, endTime \in {now, now + 1} :
        configureCampaign(caller, name, targetAmount, endTime)
DoContribute ==
    \E caller \in Callers, amount \in Amounts :
        \E res \in TransferOutcomes(caller, amount) : contribute(caller, amount, res)
DoClose ==
    \E caller \in Callers :
        \E res \in TransferOutcomes(self, PayoutPlain) : closeCampaign(caller, res)

Next ==
    \/ DoSetOperator /\ UNCHANGED uiVars
    \/ DoConfigure /\ UNCHANGED uiVars
    \/ DoContribute /\ UNCHANGED uiVars
    \/ DoClose /\ UNCHANGED uiVars
    \/ View /\ UNCHANGED uiVars
    \/ Tick /\ UNCHANGED uiVars

Spec == Init /\ [][Next]_vars

\* the frontend on its own: the page is open on the deployed campaign
DoApproveOperator == approveOperator
DoMintCeth == \E text \in AmountTexts : mintCeth(text)
DoUiContribute == \E instance \in BOOLEAN, text \in AmountTexts : uiContribute(instance, text)
DoDecryptValues ==
    \E instance \in BOOLEAN, address \in BOOLEAN,
       contribution \in ContributionData, total \in TotalData :
        decryptValues(instance, address, contribution, total)
DoDecryptValuesSigner ==
    \E call \in BagToSet(calls), resolvedSigner \in BOOLEAN :
        decryptValuesSigner(call, resolvedSigner)
DoDecryptValuesSigned ==
    \E call \in BagToSet(calls), signed \in BOOLEAN : decryptValuesSigned(call, signed)
DoUpdateCampaign == updateCampaign
DoUpdateCampaignSigner ==
    \E call \in BagToSet(calls), resolvedSigner \in BOOLEAN, valid \in BOOLEAN :
        updateCampaignSigner(call, resolvedSigner, valid)
DoUiCloseCampaign == uiCloseCampaign
DoSettle == \E call \in BagToSet(calls), ok \in BOOLEAN : Settle(call, ok)

NextUI ==
    \/ DoApproveOperator /\ UNCHANGED chainVars
    \/ DoMintCeth /\ UNCHANGED chainVars
    \/ DoUiContribute /\ UNCHANGED chainVars
    \/ DoDecryptValues /\ UNCHANGED chainVars
    \/ DoDecryptValuesSigner /\ UNCHANGED chainVars
    \/ DoDecryptValuesSigned /\ UNCHANGED chainVars
    \/ DoUpdateCampaign /\ UNCHANGED chainVars
    \/ DoUpdateCampaignSigner /\ UNCHANGED chainVars
    \/ DoUiCloseCampaign /\ UNCHANGED chainVars
    \/ DoSettle /\ UNCHANGED chainVars
    \/ ClearStatus /\ UNCHANGED chainVars

SpecUI == Init /\ [][NextUI]_vars

TypeOK ==
    /\ now \in Times
    /\ isClosed \in BOOLEAN
    /\ Len(plain) = Len(acl)
    /\ \A h \in Holders : balance[h] \in 0..(Modulus - 1)

\* the outcomes a ledger call can have, whatever the balances
Outcomes == Amounts \cup {0, Rejected}

ContributeStep(caller) ==
    \E amount \in Amounts, res \in Outcomes :
        res \in TransferOutcomes(caller, amount) /\ contribute(caller, amount, res)
CloseStep(caller) ==
    \E res \in TransferOutcomes(self, PayoutPlain) : closeCampaign(caller, res)
ConfigureStep(caller) ==
    \E name \in Names, targetAmount \in Targets, endTime \in {now, now + 1} :
        configureCampaign(caller, name, targetAmount, endTime)

\* ---------------------------------------------------------------- claims

\* C1: after any sequence of accepted contributions of one contributor, with
\* whatever else interleaved, the plaintext behind contributionOf(contributor)
\* is exactly the sum of the amounts those contributions moved in.
C1_ContributionIsSum ==
    \A c \in Callers :
        Plain(plain, contributionOf(c)) = SumAmounts(MovedIn(c))

C1_Witness ==
    \E c \in Callers :
        /\ Len(MovedIn(c)) = 2
        /\ MovedIn(c)[1].amount = 1 /\ MovedIn(c)[2].amount = 2
        /\ Plain(plain, contributionOf(c)) = 3

\* C2: the plaintext behind totalRaised() is the sum of the amounts of all
\* accepted contributions, whoever made them.
C2_TotalIsSumOfAll ==
    Plain(plain, totalRaised) = SumAmounts(MovedInAll)

C2_Witness ==
    /\ Len(MovedIn("alice")) = 1 /\ Len(MovedIn("bob")) = 1
    /\ MovedIn("alice")[1].amount = 2 /\ MovedIn("bob")[1].amount = 1
    /\ Plain(plain, totalRaised) = 3

\* C3: a successful close by the fundraiser sets isClosed and raises the
\* fundraiser's ledger balance by exactly the sum of all contributions
\* accepted before it.
C3_CloseMovesTotal ==
    [][(CloseStep(fundraiser) /\ receipt'.err = NoError)
         => /\ isClosed'
            /\ balance'[fundraiser] = balance[fundraiser] + SumAmounts(MovedInAll)
            /\ balance'[self] = balance[self] - SumAmounts(MovedInAll)]_vars

C3_Witness ==
    /\ isClosed
    /\ receipt = [op |-> "closeCampaign", err |-> NoError]
    /\ Len(MovedInAll) = 2 /\ SumAmounts(MovedInAll) = 3
    /\ balance[fundraiser] = Minted[fundraiser] + 3

\* C4: the closed flag is set only together with a paid-out transfer: when
\* the ledger rejects the transfer inside close, the campaign is still open
\* afterwards, no closed event has been recorded and close still passes the
\* contract's checks.
C4_ClosedOnlyWithPayout ==
    [][/\ isClosed' => (Len(MovedOut') = 1 /\ Count("CampaignClosed")' = 1)
       /\ \A caller \in Callers :
             (closeCampaign(caller, Rejected) /\ CloseError(caller) = NoError)
                => /\ receipt'.err = TransferRejected
                   /\ ~isClosed'
                   /\ events' = events
                   /\ CloseError(fundraiser)' = NoError]_vars

C4_Witness ==
    /\ receipt = [op |-> "closeCampaign", err |-> TransferRejected]
    /\ ~isClosed
    /\ Count("CampaignClosed") = 0
    /\ Len(MovedInAll) > 0

\* C5: a contribute on an open campaign when now > endTime fails with
\* PastEndTime and leaves contributionOf(caller) and totalRaised unchanged.
C5_PastEndTimeRejected ==
    [][\A caller \in Callers :
         (ContributeStep(caller) /\ ~isClosed /\ now > _campaign.endTime)
            => /\ receipt'.err = PastEndTime
               /\ contributionOf(caller)' = contributionOf(caller)
               /\ totalRaised' = totalRaised]_vars

C5_Witness ==
    /\ receipt = [op |-> "contribute", err |-> PastEndTime]
    /\ ~isClosed
    /\ now > _campaign.endTime
    /\ \E c \in Callers : isOperator(c)

\* C6 (as stated): a contribute from a caller for whom the contract is not an
\* approved operator fails with OperatorMissing and no ledger balance changes.
C6_Original ==
    [][\A caller \in Callers :
         (ContributeStep(caller) /\ ~isOperator(caller))
            => (receipt'.err = OperatorMissing /\ balance' = balance)]_vars

\* C6 (amended): a contribute from a caller for whom the contract is not an
\* approved operator fails and no ledger balance changes; on an open campaign
\* with now <= endTime the failure is OperatorMissing.
C6_OperatorMissing ==
    [][\A caller \in Callers :
         (ContributeStep(caller) /\ ~isOperator(caller))
            => /\ receipt'.err # NoError
               /\ balance' = balance
               /\ transfers' = transfers
               /\ (~isClosed /\ now <= _campaign.endTime)
                     => receipt'.err = OperatorMissing]_vars

C6_Witness ==
    /\ receipt = [op |-> "contribute", err |-> OperatorMissing]
    /\ ~isClosed
    /\ now <= _campaign.endTime
    /\ \E c \in Contributors : ~isOperator(c) /\ balance[c] >= MaxAmount

\* C7: configure and close called by anyone but the fundraiser fail with
\* Unauthorized, and the whole state (metadata, closed flag, ledgers, event
\* log) is the same after the call as before.
C7_Unauthorized ==
    [][\A caller \in Callers \ {fundraiser} :
         (ConfigureStep(caller) \/ CloseStep(caller))
            => /\ receipt'.err = Unauthorized
               /\ UNCHANGED <<now, _campaign, _totalRaised, isClosed, lastContributionAt,
                              _contributions, events, plain, acl, balance,
                              operatorUntil, transfers>>]_vars

C7_Witness ==
    /\ receipt = [op |-> "closeCampaign", err |-> Unauthorized]
    /\ ~isClosed
    /\ Len(MovedInAll) > 0

C9_ConfigureRoundTrip ==
    /\ getCampaign = <<events[1].name, events[1].targetAmount, events[1].endTime, FALSE>>
    /\ [][\A name \in Names, targetAmount \in Targets, endTime \in {now, now + 1} :
            (/\ configureCampaign(fundraiser, name, targetAmount, endTime)
             /\ ~isClosed /\ name # "" /\ targetAmount > 0 /\ endTime > now)
               => /\ receipt'.err = NoError
                  /\ getCampaign' = <<name, targetAmount, endTime, FALSE>>]_vars

C9_Witness ==
    /\ receipt = [op |-> "configureCampaign", err |-> NoError]
    /\ getCampaign = <<"EtherLift Seed", 2, now + 1, FALSE>>
    /\ Len(events) > 1

\* C10: close on an open campaign that never received a contribution goes
\* through: the payout is a fresh ciphertext of zero, the ledger transfer to
\* the fundraiser is still made with it, closed is set, and the amount
\* moved is zero.
C10_CloseWithoutContributions ==
    [][(/\ CloseStep(fundraiser)
        /\ ~isClosed
        /\ ~isInitialized(_totalRaised)
        /\ receipt'.err # TransferRejected)
          => LET payout == Len(plain) + 1 IN
             /\ receipt'.err = NoError
             /\ isClosed'
             /\ Len(plain') = payout
             /\ plain'[payout] = 0
             /\ self \in acl'[payout]
             /\ transfers' = Append(transfers, [from |-> self, to |-> fundraiser,
                                                amount |-> 0, handle |-> payout])
             /\ events' = Append(events, CampaignClosedEvent(fundraiser, payout, now))
             /\ totalRaised' = 0]_vars

C10_Witness ==
    /\ isClosed
    /\ Count("ContributionReceived") = 0
    /\ Len(MovedOut) = 1
    /\ isInitialized(MovedOut[1].handle)
    /\ Plain(plain, MovedOut[1].handle) = 0

\* C11 (as stated): contributionOf(identity) and totalRaised() never return
\* the uninitialized handle, in any reachable state.
C11_Original ==
    /\ isInitialized(totalRaised)
    /\ \A c \in Callers : isInitialized(contributionOf(c))

\* C11 (amended): contributionOf(identity) and totalRaised() return the
\* stored handle as it is: the uninitialized handle exactly as long as no
\* contribution of that identity (for the total: of anyone) has been accepted,
\* and from then on a handle of the store on which the contract is allowed.
C11_ReadsReturnStoredHandle ==
    /\ isInitialized(totalRaised) <=> Len(MovedInAll) > 0
    /\ isInitialized(totalRaised)
          => (totalRaised \in 1..Len(plain) /\ self \in acl[totalRaised])
    /\ \A c \in Callers :
          /\ isInitialized(contributionOf(c)) <=> Len(MovedIn(c)) > 0
          /\ isInitialized(contributionOf(c))
                => (contributionOf(c) \in 1..Len(plain) /\ self \in acl[contributionOf(c)])

C11_Witness ==
    /\ isInitialized(contributionOf("alice"))
    /\ ~isInitialized(contributionOf("bob"))
    /\ isInitialized(totalRaised)
    /\ receipt.op = "view"

\* C12: after a successful contribute by c, the newly stored balance handle
\* of c and the newly stored total handle both carry grants for the
\* contract, c and the fundraiser.
C12_GrantsAfterContribute ==
    [][\A c \in Callers :
         (ContributeStep(c) /\ receipt'.err = NoError)
            => /\ _contributions'[c] > Len(plain)
               /\ _totalRaised' > Len(plain)
               /\ {self, c, fundraiser} \subseteq acl'[_contributions'[c]]
               /\ {self, c, fundraiser} \subseteq acl'[_totalRaised']]_vars

C12_Witness ==
    /\ receipt = [op |-> "contribute", err |-> NoError]
    /\ \E c \in Contributors :
          /\ events[Len(events)].contributor = c
          /\ {self, c, fundraiser} \subseteq acl[_contributions[c]]
          /\ {self, c, fundraiser} \subseteq acl[_totalRaised]

\* C13: the handle stored as the balance of contributor c is allowed to c,
\* the fundraiser and the contract and to nobody else, whoever else has
\* contributed before or after c; and no step adds a grant to a handle.
C13_BalanceGrantsExact ==
    [][/\ \A c \in Callers :
             isInitialized(_contributions'[c])
                => acl'[_contributions'[c]] = {self, c, fundraiser}
       /\ \A h \in 1..Len(acl) : acl'[h] = acl[h]]_vars

C13_Witness ==
    /\ isInitialized(_contributions["alice"]) /\ isInitialized(_contributions["bob"])
    /\ _contributions["alice"] < _contributions["bob"]
    /\ "bob" \notin acl[_contributions["alice"]]
    /\ "alice" \notin acl[_contributions["bob"]]

\* C14: a failing configure, contribute or close, whatever the failure (a
\* transfer the ledger rejects inside contribute included), leaves the state
\* as it was: no event is appended, lastContributionAt is not advanced, and
\* no contribution record, total or ledger balance changes.
C14_FailureChangesNothing ==
    [][((\E caller \in Callers :
            ConfigureStep(caller) \/ ContributeStep(caller) \/ CloseStep(caller))
        /\ receipt'.err # NoError)
          => UNCHANGED <<now, _campaign, _totalRaised, isClosed, lastContributionAt,
                         _contributions, events, plain, acl, balance, operatorUntil,
                         transfers>>]_vars

C14_Witness ==
    /\ receipt = [op |-> "contribute", err |-> TransferRejected]
    /\ lastContributionAt > 0
    /\ now > lastContributionAt
    /\ events[Len(events)].type = "ContributionReceived"

\* C15: targetAmount is never enforced: a contribute that passes the closed,
\* end-time and operator checks is accepted (unless the ledger rejects the
\* transfer) also when the total has reached targetAmount, and closed changes
\* only in a successful close by the fundraiser, never in a contribute.
C15_TargetNotEnforced ==
    [][/\ \A c \in Callers :
             (/\ ContributeStep(c)
              /\ ~isClosed /\ now <= _campaign.endTime /\ isOperator(c)
              /\ receipt'.err # TransferRejected)
                => (receipt'.err = NoError /\ ~isClosed')
       /\ isClosed' # isClosed
             => (CloseStep(fundraiser) /\ receipt' = [op |-> "closeCampaign", err |-> NoError])
      ]_vars

C15_Witness ==
    /\ receipt = [op |-> "contribute", err |-> NoError]
    /\ ~isClosed
    /\ Count("CampaignUpdated") = 1
    /\ Len(MovedInAll) = 2
    /\ MovedInAll[1].amount >= _campaign.targetAmount
    /\ MovedInAll[2].amount > 0

\* C16 (as stated): a configure by the fundraiser on an open campaign fails
\* with InvalidName if name is empty, with InvalidTarget if targetAmount is 0
\* and with InvalidEndTime if endTime <= now, and leaves the campaign as it was.
C16_Original ==
    [][\A name \in Names, targetAmount \in Targets, endTime \in {now, now + 1} :
         (configureCampaign(fundraiser, name, targetAmount, endTime) /\ ~isClosed)
            => /\ name = "" => receipt'.err = InvalidName
               /\ targetAmount = 0 => receipt'.err = InvalidTarget
               /\ endTime <= now => receipt'.err = InvalidEndTime
               /\ (name = "" \/ targetAmount = 0 \/ endTime <= now)
                     => _campaign' = _campaign]_vars

\* C16 (amended): the three arguments are checked in the order name,
\* targetAmount, endTime and the first failing check is the one reported:
\* InvalidName for an empty name, InvalidTarget for a target of 0 with a
\* non-empty name, InvalidEndTime for endTime <= now (endTime = now
\* included) with the other two valid; in each case the campaign is as before.
C16_InvalidConfigure ==
    [][\A name \in Names, targetAmount \in Targets, endTime \in {now, now + 1} :
         (configureCampaign(fundraiser, name, targetAmount, endTime) /\ ~isClosed)
            => /\ name = "" => receipt'.err = InvalidName
               /\ (name # "" /\ targetAmount = 0) => receipt'.err = InvalidTarget
               /\ (name # "" /\ targetAmount > 0 /\ endTime <= now)
                     => receipt'.err = InvalidEndTime
               /\ (name = "" \/ targetAmount = 0 \/ endTime <= now)
                     => (_campaign' = _campaign /\ events' = events)]_vars

C16_Witness ==
    /\ receipt = [op |-> "configureCampaign", err |-> InvalidEndTime]
    /\ ~isClosed
    /\ _campaign.endTime > now

\* C17: after a successful close every contribute fails with CampaignClosed,
\* whatever the time and the caller's operator status, so the balances, the
\* total and lastContributionAt are the same in all states after the close.
C17_NoContributionAfterClose ==
    [][isClosed
         => /\ \A c \in Callers : ContributeStep(c) => receipt'.err = CampaignClosed
            /\ UNCHANGED <<_contributions, _totalRaised, lastContributionAt>>]_vars

C17_Witness ==
    /\ isClosed
    /\ receipt = [op |-> "contribute", err |-> CampaignClosed]
    /\ now <= _campaign.endTime
    /\ \E c \in Contributors : isOperator(c) /\ balance[c] >= MaxAmount

\* C18: a call of getCampaign, timeRemaining, totalRaised or contributionOf
\* (a step that ends with the receipt of a read and is not the clock's) leaves every state variable, every grant and the event log unchanged, so
\* the values read and the outcome of every later operation are the same
\* with the read as without it.
C18_ReadsChangeNothing ==
    [][(receipt'.op = "view" /\ now' = now)
         => /\ UNCHANGED <<now, _campaign, _totalRaised, isClosed, lastContributionAt,
                           _contributions, events, plain, acl, balance, operatorUntil,
                           transfers>>
            /\ getCampaign' = getCampaign
            /\ timeRemaining' = timeRemaining
            /\ totalRaised' = totalRaised
            /\ \A c \in Callers :
                  /\ contributionOf(c)' = contributionOf(c)
                  /\ CloseError(c)' = CloseError(c)
                  /\ \A res \in Outcomes : ContributeError(c, res)' = ContributeError(c, res)
                  /\ \A name \in Names, targetAmount \in Targets, endTime \in Times :
                        ConfigureError(c, name, targetAmount, endTime)'
                           = ConfigureError(c, name, targetAmount, endTime)]_vars

C18_Witness ==
    /\ receipt.op = "view"
    /\ ~isClosed
    /\ Len(events) = MaxEvents
    /\ Count("ContributionReceived") > 0

\* C19: timeRemaining is max(0, endTime - now) for every now and endTime: a
\* natural number, 0 whenever now >= endTime, endTime - now otherwise,
\* whether the campaign is open or closed.
C19_TimeRemaining ==
    /\ timeRemaining \in Nat
    /\ timeRemaining >= _campaign.endTime - now
    /\ timeRemaining \in {0, _campaign.endTime - now}
    /\ now >= _campaign.endTime => timeRemaining = 0

C19_Witness ==
    /\ isClosed
    /\ now > _campaign.endTime
    /\ timeRemaining = 0
    /\ receipt.op = "view"

\* C20: in every open state a close by the fundraiser passes the contract's
\* own checks, before and after endTime, with the target reached or not,
\* with or without contributions: only the ledger can make it fail.
C20_FundraiserCanClose ==
    [][~isClosed
         => /\ CloseError(fundraiser) = NoError
            /\ CloseStep(fundraiser) => receipt'.err \in {NoError, TransferRejected}]_vars

C20_Witness ==
    /\ receipt = [op |-> "closeCampaign", err |-> NoError]
    /\ now <= _campaign.endTime
    /\ Len(MovedInAll) > 0
    /\ Len(MovedOut) = 1
    /\ MovedOut[1].amount < _campaign.targetAmount

\* C21: contribute checks closed, then the end time, then the operator: with
\* several of them violated the failure reported is the first in that order,
\* and the ledger is asked for the transfer (which it may reject) only after
\* all three have passed.
C21_ContributeCheckOrder ==
    [][\A c \in Callers :
         ContributeStep(c)
            => /\ isClosed => receipt'.err = CampaignClosed
               /\ (~isClosed /\ now > _campaign.endTime) => receipt'.err = PastEndTime
               /\ (~isClosed /\ now <= _campaign.endTime /\ ~isOperator(c))
                     => receipt'.err = OperatorMissing
               /\ (receipt'.err = TransferRejected \/ transfers' # transfers)
                     => (~isClosed /\ now <= _campaign.endTime /\ isOperator(c))]_vars

C21_Witness ==
    /\ receipt = [op |-> "contribute", err |-> PastEndTime]
    /\ ~isClosed
    /\ now > _campaign.endTime
    /\ \A c \in Callers : ~isOperator(c)
    /\ transfers = <<>>

\* C22: an accepted contribute credits what the ledger reports as moved, not
\* what the caller submitted: the plaintext of `transferred` is the amount the
\* ledger moved, the caller's balance and the total each grow by it (by zero
\* when the ledger moved nothing), and the ContributionReceived event carries
\* the handle of `transferred`.
C22_CreditsLedgerDelta ==
    [][\A c \in Callers : (ContributeStep(c) /\ receipt'.err = NoError)
         => LET t == transfers'[Len(transfers')]
                e == events'[Len(events')]
            IN  /\ e.type = "ContributionReceived"
                /\ e.encryptedAmount = t.handle
                /\ e.encryptedAmount \notin {_contributions'[c], _totalRaised'}
                /\ plain'[e.encryptedAmount] = t.amount
                /\ t.amount = balance[c] - balance'[c]
                /\ Plain(plain', _contributions'[c])
                      = FHE_add(Plain(plain, _contributions[c]), t.amount)
                /\ Plain(plain', _totalRaised')
                      = FHE_add(Plain(plain, _totalRaised), t.amount)]_vars

C22_Witness ==
    /\ receipt = [op |-> "contribute", err |-> NoError]
    /\ Len(MovedIn("alice")) = 2
    /\ MovedIn("alice")[1].amount = MaxAmount
    /\ MovedIn("alice")[2].amount = 0
    /\ balance["alice"] > 0
    /\ Plain(plain, contributionOf("alice")) = MaxAmount
    /\ Plain(plain, totalRaised) = MaxAmount

\* C23: lastContributionAt is the timestamp of the most recent successful
\* contribute, 0 if there has been none: it is the timestamp of the last
\* ContributionReceived event, whatever configure, close or failed call
\* came after it.
C23_LastContributionAt ==
    LET received == EventsOf("ContributionReceived") IN
    /\ lastContributionAt
          = IF Len(received) = 0 THEN 0 ELSE received[Len(received)].timestamp
    /\ lastContributionAt <= now

C23_Witness ==
    /\ Count("ContributionReceived") = 1
    /\ lastContributionAt > 0
    /\ lastContributionAt < now
    /\ isClosed
    /\ events[Len(events)].type = "CampaignClosed"
    /\ receipt = [op |-> "configureCampaign", err |-> CampaignClosed]

\* C24: the event log is append-only and mirrors the successful operations one
\* to one: construction and each successful configure append one
\* CampaignUpdated with the values now stored, each successful contribute one
\* ContributionReceived, each successful close one CampaignClosed, and nothing
\* else appends; there is at most one CampaignClosed and it is the last event.
C24_EventLog ==
       [][/\ Len(events) = 1
                => events = <<[type |-> "CampaignUpdated", name |-> _campaign.name,
                               targetAmount |-> _campaign.targetAmount,
                               endTime |-> _campaign.endTime]>>
          /\ \/ events' = events
             \/ /\ Len(events') = Len(events) + 1
                /\ SubSeq(events', 1, Len(events)) = events
                /\ receipt'.err = NoError
                /\ events'[Len(events')].type
                      = CASE receipt'.op = "configureCampaign" -> "CampaignUpdated"
                          [] receipt'.op = "contribute" -> "ContributionReceived"
                          [] receipt'.op = "closeCampaign" -> "CampaignClosed"
                          [] OTHER -> "none"
          /\ \A c \in Callers :
                /\ (ConfigureStep(c) /\ receipt'.err = NoError)
                      => events' = Append(events,
                            [type |-> "CampaignUpdated", name |-> _campaign'.name,
                             targetAmount |-> _campaign'.targetAmount,
                             endTime |-> _campaign'.endTime])
                /\ (ContributeStep(c) /\ receipt'.err = NoError)
                      => /\ Len(events') = Len(events) + 1
                         /\ events'[Len(events')].type = "ContributionReceived"
                         /\ events'[Len(events')].contributor = c
                         /\ events'[Len(events')].timestamp = now
                /\ (CloseStep(c) /\ receipt'.err = NoError)
                      => /\ Len(events') = Len(events) + 1
                         /\ events'[Len(events')].type = "CampaignClosed"
                         /\ events'[Len(events')].fundraiser = fundraiser
                         /\ events'[Len(events')].timestamp = now
          /\ Count("CampaignClosed")' <= 1
          /\ Count("CampaignClosed")' = 1 => events'[Len(events')].type = "CampaignClosed"
         ]_vars

C24_Witness ==
    /\ Len(events) = 4
    /\ events[2].type = "CampaignUpdated"
    /\ events[2].targetAmount # events[1].targetAmount
    /\ events[3].type = "ContributionReceived"
    /\ events[4].type = "CampaignClosed"
    /\ receipt = [op |-> "closeCampaign", err |-> AlreadyClosed]

\* the sum of the plaintexts behind the stored balances of a set of callers
RECURSIVE SumBalances(_)
SumBalances(cs) ==
    IF cs = {} THEN 0
    ELSE LET c == CHOOSE x \in cs : TRUE
         IN Plain(plain, _contributions[c]) + SumBalances(cs \ {c})

\* C25: in every reachable state the plaintext behind the total is the sum,
\* over all callers, of the plaintext behind their stored balance, an
\* unwritten balance counting as zero.
C25_TotalIsSumOfBalances ==
    Plain(plain, _totalRaised) = SumBalances(Callers)

C25_Witness ==
    /\ isClosed
    /\ Plain(plain, _contributions["alice"]) > 0
    /\ Plain(plain, _contributions["bob"]) > 0
    /\ ~isInitialized(_contributions[fundraiser])
    /\ receipt = [op |-> "closeCampaign", err |-> Unauthorized]

\* C26: whatever the interleaving of contribute, configure and close
\* transactions, what the contract holds on the ledger is the total while the
\* campaign is open and nothing once it is closed: what was moved in has all
\* been moved out to the fundraiser.
C26_CustodyIsTotal ==
    /\ balance[self] = IF isClosed THEN 0 ELSE Plain(plain, _totalRaised)
    /\ balance[self] = SumAmounts(MovedInAll) - SumAmounts(MovedOut)
    /\ isClosed => SumAmounts(MovedOut) = Plain(plain, _totalRaised)

C26_Witness ==
    /\ isClosed
    /\ balance[self] = 0
    /\ Len(MovedInAll) = 2
    /\ MovedInAll[1].amount > 0 /\ MovedInAll[2].amount > 0
    /\ MovedInAll[1].from # MovedInAll[2].from
    /\ receipt = [op |-> "contribute", err |-> CampaignClosed]

\* C27: passing the deadline is not terminal while the campaign is open: with
\* now > endTime and the campaign open, every contribute fails with
\* PastEndTime, and after a successful configure by the fundraiser (its
\* endTime is later than now) none does: a contribute of an approved caller
\* that the ledger does not reject is accepted again.
C27_DeadlineReopens ==
    [][\A name \in Names, targetAmount \in Targets, endTime \in {now, now + 1} :
         (/\ configureCampaign(fundraiser, name, targetAmount, endTime)
          /\ receipt'.err = NoError
          /\ ~isClosed /\ now > _campaign.endTime)
            => /\ _campaign'.endTime = endTime /\ endTime > now
               /\ \A c \in Callers, res \in Outcomes :
                     /\ ContributeError(c, res) = PastEndTime
                     /\ ContributeError(c, res)' # PastEndTime
                     /\ (isOperator(c) /\ res # Rejected)
                           => ContributeError(c, res)' = NoError]_vars

C27_Witness ==
    /\ receipt = [op |-> "contribute", err |-> NoError]
    /\ lastContributionAt = now
    /\ Count("CampaignUpdated") = 2
    /\ now > events[1].endTime
    /\ now <= _campaign.endTime
    /\ events[2].type = "CampaignUpdated"
    /\ events[2].endTime > events[1].endTime

C29_InclusiveDeadline ==
    [][\A c \in Callers :
         ContributeStep(c)
            => /\ (~isClosed /\ isOperator(c) /\ now = _campaign.endTime)
                     => (receipt'.err \in {NoError, TransferRejected} /\ timeRemaining = 0)
               /\ receipt'.err = PastEndTime => now >= _campaign.endTime + 1
               /\ (~isClosed /\ now >= _campaign.endTime + 1)
                     => receipt'.err = PastEndTime]_vars

C29_Witness ==
    /\ receipt = [op |-> "contribute", err |-> NoError]
    /\ ~isClosed
    /\ lastContributionAt = now
    /\ now = _campaign.endTime
    /\ timeRemaining = 0

\* C30 (as stated): a successful close changes only the closed flag, the
\* ledger balances and the event log.
C30_Original ==
    [][(CloseStep(fundraiser) /\ receipt'.err = NoError)
         => UNCHANGED <<now, _campaign, _totalRaised, lastContributionAt, _contributions,
                        plain, acl, operatorUntil>>]_vars

\* C30 (amended): a successful close changes the closed flag, the ledger
\* balances and the event log, and, when no contribution has been accepted,
\* makes one new handle of an encrypted zero that only the contract is
\* allowed on; the stored total and the stored balances are not reset, so
\* totalRaised and contributionOf return the same handles after as before.
C30_CloseKeepsHandles ==
    [][(CloseStep(fundraiser) /\ receipt'.err = NoError)
         => /\ isClosed'
            /\ UNCHANGED <<now, _campaign, _totalRaised, lastContributionAt,
                           _contributions, operatorUntil>>
            /\ totalRaised' = totalRaised
            /\ \A c \in Callers : contributionOf(c)' = contributionOf(c)
            /\ plain' = IF isInitialized(_totalRaised) THEN plain ELSE Append(plain, 0)
            /\ acl' = IF isInitialized(_totalRaised) THEN acl ELSE Append(acl, {self})]_vars

C30_Witness ==
    /\ receipt = [op |-> "closeCampaign", err |-> NoError]
    /\ ~isInitialized(totalRaised)
    /\ \A c \in Callers : ~isInitialized(contributionOf(c))
    /\ Len(plain) = 1
    /\ acl[1] = {self}
    /\ events[Len(events)].encryptedAmount = 1

\* C31: a button stays disabled for as long as its own action is in flight:
\* whatever the interleaving of the six handlers on the one busy slot, a
\* handler that has started and not yet finished is not started a second
\* time, so at most one call of each handler is in flight.
C31_Original ==
    \A key \in Keys : InFlight(key) <= 1

C31_Witness ==
    /\ InFlight("mint") = 2
    /\ busy = "mint"
    /\ status = Succeeded("operator")

\* the data of a query is absent or the zero handle
AbsentOrZero(data) == data \in {Undefined, ZERO_HANDLE}

\* C32 (as stated): decryptValues never puts the zero handle in a request,
\* and with both handles absent or zero a run of the handler reports
\* 'Nothing to decrypt yet.' and leaves the busy slot and the relayer alone.
C32_Original ==
    [][/\ \A i \in 1..Len(requested') : requested'[i] # ZERO_HANDLE
       /\ \A instance \in BOOLEAN, address \in BOOLEAN,
             contribution \in ContributionData, total \in TotalData :
             (/\ decryptValues(instance, address, contribution, total)
              /\ AbsentOrZero(contribution) /\ AbsentOrZero(total)
              /\ calls' = calls)
                => (status' = NothingToDecrypt /\ busy' = busy /\ requested' = requested)
       /\ \A call \in BagToSet(calls), resolvedSigner \in BOOLEAN :
             (/\ decryptValuesSigner(call, resolvedSigner)
              /\ AbsentOrZero(call.contribution) /\ AbsentOrZero(call.total))
                => (status' = NothingToDecrypt /\ busy' = busy /\ requested' = requested)
      ]_vars

\* C32 (amended): decryptValues never puts the zero handle in a request: a
\* request holds exactly the contribution and total handles that are present
\* and not zero.  With both absent or zero, and the encryption instance, the
\* address and the signer present, the handler reports 'Nothing to decrypt
\* yet.', never sets the busy slot to 'decrypt' and sends nothing to the
\* relayer; like every run of the handler it ends by clearing the busy slot.
C32_ZeroHandleNotSubmitted ==
    [][/\ requested' # requested
            => /\ Len(requested') > 0
               /\ \A i \in 1..Len(requested') : ~AbsentOrZero(requested'[i])
       /\ \A instance \in BOOLEAN, address \in BOOLEAN,
             contribution \in ContributionData, total \in TotalData :
             decryptValues(instance, address, contribution, total)
                => (busy' \in {busy, None} /\ requested' = requested)
       /\ \A call \in BagToSet(calls) :
             /\ (/\ decryptValuesSigner(call, TRUE)
                 /\ AbsentOrZero(call.contribution) /\ AbsentOrZero(call.total))
                   => /\ status' = NothingToDecrypt
                      /\ busy' = None
                      /\ requested' = requested
                      /\ calls' = Resume(call)
             /\ (/\ decryptValuesSigner(call, TRUE)
                 /\ ~(AbsentOrZero(call.contribution) /\ AbsentOrZero(call.total)))
                   => /\ busy' = "decrypt"
                      /\ \E next \in BagToSet(calls') :
                            /\ next.pc = "sign"
                            /\ calls' = Resume(call) (+) SetToBag({next})
                            /\ \A h \in ContributionData \cup TotalData :
                                  (\E i \in 1..Len(next.handles) : next.handles[i] = h)
                                     <=> (/\ h \in {call.contribution, call.total}
                                          /\ ~AbsentOrZero(h))
      ]_vars

C32_Witness ==
    /\ status = NothingToDecrypt
    /\ busy = None
    /\ InFlight("mint") = 1
    /\ InFlight("decrypt") = 0
    /\ requested = <<>>

====
